---- MODULE Spec2Model ----
(***************************************************************************)
(* Execution-trace reconstruction of plot/plot_gantt_bytask.py and         *)
(* plot/plot_gantt_multiexec.py: the task instances of one or several DAG  *)
(* runs are loaded into a list of start/stop events, the capacity of every *)
(* pool is inferred by a sweep over the sorted events, every instance is    *)
(* placed on the first free slot of its pool, and the rows are rebased,    *)
(* sorted and handed to the renderer.                                       *)
(*                                                                         *)
(* Timestamps are integers (seconds); None is modelled by the value -1,    *)
(* which is no timestamp.  A task instance `ti` inside an event is the     *)
(* position of its record in the loaded list (the scripts keep a reference *)
(* to the JSON object).                                                     *)
(***************************************************************************)
EXTENDS Integers, Sequences, FiniteSets, TLC

\* ---------------------------------------------------------------- bounds
MaxInst == 2
MaxTime == 2
MaxDur == 2
MaxPoolSlots == 2
MaxRuns == 2

\* ---------------------------------------------------------------- inputs
None == -1

Pools == {"cpu", "gpu"}
Variants == {"bytask", "multiexec"}
\* the fields a record of the API answer may lack: "" is a complete record
MissingFields == {"", "end_date", "map_index"}
TaskIds == {"dock"}
MapIndexes == {-1}
\* constants.POOL_ALIAS tables the scripts are run with
AliasTables == { [p \in {"gpu"} |-> "GPU"] }

Times == 0..MaxTime

TaskInstances(runs) ==
    [ pool : Pools, pool_slots : 1..MaxPoolSlots,
      start_date : Times, end_date : Times, duration : 0..MaxDur,
      missing : MissingFields, dag_run_id : runs,
      task_id : TaskIds, map_index : MapIndexes ]

\* the data model's invariant on an instance: end >= start
WellTimed(ti) == ti.end_date >= ti.start_date

SeqsUpTo(S, n) == UNION { [1..m -> S] : m \in 0..n }

\* the answers of the API, concatenated in the order of DAG_RUN_IDS
Answers(v) ==
    IF v = "bytask"
    THEN { s \in SeqsUpTo(TaskInstances({1}), MaxInst) :
             \A x \in 1..Len(s) : WellTimed(s[x]) }
    ELSE { s \in SeqsUpTo(TaskInstances(1..MaxRuns), MaxInst) :
             /\ \A x \in 1..Len(s) : WellTimed(s[x])
             /\ \A x \in 1..Len(s), y \in 1..Len(s) :
                   x < y => s[x].dag_run_id <= s[y].dag_run_id }

VARIABLES variant, POOL_ALIAS, d, pc, err, k, pool_sizes, dates, tmp, slots,
          found, i, df, rendered, run, prev

vars == << variant, POOL_ALIAS, d, pc, err, k, pool_sizes, dates, tmp, slots,
           found, i, df, rendered, run, prev >>

\* what no statement of one execution of the script changes: the variant, the
\* configuration, the API's answer, and the record of the execution before
env == << variant, POOL_ALIAS, d, run, prev >>

\* ---------------------------------------------------------------- helpers
\* a dict as a function on the set of its keys
EmptyDict == [p \in {} |-> 0]
Put(dict, key, val) ==
    [p \in DOMAIN dict \cup {key} |-> IF p = key THEN val ELSE dict[p]]
\* defaultdict(int).__getitem__ (the entry is created on a miss)
Get0(dict, key) == IF key \in DOMAIN dict THEN dict[key] ELSE 0
Max(a, b) == IF a >= b THEN a ELSE b

\* list.sort: stable, ascending by the elements' keys (keys[p] is the key of
\* s[p]); the element at position p moves behind every element with a smaller
\* key and behind the elements of equal key that stood before it
StableSort(s, keys) ==
    LET n == Len(s)
        rank(p) == Cardinality({ q \in 1..n :
                      \/ keys[q] < keys[p]
                      \/ (keys[q] = keys[p] /\ q < p) })
    IN [r \in 1..n |-> s[CHOOSE p \in 1..n : rank(p) = r - 1]]

\* (variant of SortByTime: latest event first)
SortByTimeDescending(s) == StableSort(s, [p \in 1..Len(s) |-> 0 - s[p].t])

\* (variant of SortByTime: events of equal timestamp end up in reverse order)
SortByTimeTiesReversed(s) ==
    StableSort(s, [p \in 1..Len(s) |-> s[p].t * (Len(s) + 1) - p])

\* dates.sort(key=lambda e: e[0])
SortByTime(s) == StableSort(s, [p \in 1..Len(s) |-> s[p].t])

\* str(n) for n >= 0, as the sequence of its decimal digits
RECURSIVE Digits(_)
Digits(n) == IF n < 10 THEN << n >> ELSE Append(Digits(n \div 10), n % 10)

DigitChar == << "0", "1", "2", "3", "4", "5", "6", "7", "8", "9" >>

RECURSIVE Chars(_)
Chars(ds) ==
    IF ds = << >> THEN "" ELSE DigitChar[Head(ds) + 1] \o Chars(Tail(ds))

\* f'{n}'
Str(n) == IF n < 0 THEN "-" \o Chars(Digits(-n)) ELSE Chars(Digits(n))

\* str.__lt__ on two digit sequences
RECURSIVE DigitsLess(_, _)
DigitsLess(a, b) ==
    IF b = << >> THEN FALSE
    ELSE IF a = << >> THEN TRUE
    ELSE IF Head(a) # Head(b) THEN Head(a) < Head(b)
    ELSE DigitsLess(Tail(a), Tail(b))

\* the pool names and aliases in str order; none is a prefix of another, so
\* two labels '<alias>.<i>' with different aliases compare as the aliases do
AliasOrder == << "CPU", "GPU", "cpu", "gpu" >>
AliasRank(a) == CHOOSE n \in 1..Len(AliasOrder) : AliasOrder[n] = a

\* (variant of Alias: the table is not consulted)
AliasIdentity(table, pool) == pool

\* POOL_ALIAS.get(pool, pool)
Alias(table, pool) == IF pool \in DOMAIN table THEN table[pool] ELSE pool

\* f'{pool}.{i}'
Label(alias, slot) == alias \o "." \o Str(slot)

\* e1['resource'] < e2['resource']
ResourceLess(r1, r2) ==
    \/ AliasRank(r1.alias) < AliasRank(r2.alias)
    \/ /\ r1.alias = r2.alias
       /\ DigitsLess(Digits(r1.slot), Digits(r2.slot))

\* (variant of WeightConflict: the dict of seen pools is emptied for each run)
WeightConflictSameRun(sizes, recs, n) ==
    /\ recs[n].pool \in DOMAIN sizes
    /\ sizes[recs[n].pool] # recs[n].pool_slots
    /\ \E m \in 1..(n - 1) : /\ recs[m].pool = recs[n].pool
                             /\ recs[m].dag_run_id = recs[n].dag_run_id

\* the assert's condition fails: the pool was seen with another pool_slots
WeightConflict(sizes, recs, n) ==
    /\ recs[n].pool \in DOMAIN sizes
    /\ sizes[recs[n].pool] # recs[n].pool_slots

\* (variant of IsStart: the stop events are not skipped)
IsStartAlways(e) == TRUE

\* event == 'start'
IsStart(e) == e.event = "start"

\* (variant of NewSlots: one slot too many)
NewSlotsPlusOne(pool_size) == [j \in 1..(pool_size + 1) |-> None]

\* [None] * pool_size
NewSlots(pool_size) == [j \in 1..pool_size |-> None]

\* the exception of datetime.fromisoformat(ti['start_date']) or (ti['end_date'])
\* on a record with that defect, "" when both timestamps are read and parsed
TimestampError(ti) ==
    IF ti.missing \in {"start_date", "end_date"} THEN "KeyError"
    ELSE IF ti.missing \in {"start_date:unparsable", "end_date:unparsable"}
    THEN "ValueError"
    ELSE IF ti.missing \in {"start_date:null", "end_date:null"}
    THEN "TypeError"
    ELSE ""

\* (variant of RowError: map_index is read with ti.get('map_index'))
RowErrorLenient(ti, v) ==
    IF \/ ti.missing = "task_id"
       \/ ti.missing = "dag_run_id" /\ v = "multiexec"
    THEN "KeyError" ELSE ""

\* the exception of building the row of a record with that defect: the reads
\* ti['map_index'], ti['task_id'] and, in the multi-run script, ti['dag_run_id']
RowError(ti, v) ==
    IF \/ ti.missing \in {"map_index", "task_id"}
       \/ ti.missing = "dag_run_id" /\ v = "multiexec"
    THEN "KeyError" ELSE ""

\* (variant of Available: a slot that was never booked is not taken for free)
AvailableOnceBooked(next_available, t) ==
    next_available # None /\ next_available <= t

\* 'next_available is None or next_available <= t'
Available(next_available, t) == next_available = None \/ next_available <= t

\* (variant of ScanStop: the scan keeps the last available slot, no break)
ScanStopLastFree(ss, t) ==
    IF \E j \in 1..Len(ss) : Available(ss[j], t)
    THEN (CHOOSE j \in 1..Len(ss) :
             /\ Available(ss[j], t)
             /\ \A h \in (j + 1)..Len(ss) : ~Available(ss[h], t)) - 1
    ELSE Len(ss) - 1

\* the index at which 'for i, next_available in enumerate(ss)' stops: the
\* first available slot, else the last slot (0-based)
ScanStop(ss, t) ==
    IF \E j \in 1..Len(ss) : Available(ss[j], t)
    THEN (CHOOSE j \in 1..Len(ss) :
             /\ Available(ss[j], t)
             /\ \A h \in 1..(j - 1) : ~Available(ss[h], t)) - 1
    ELSE Len(ss) - 1

\* ---------------------------------------------------------------- Init
Init ==
    /\ variant \in Variants
    /\ POOL_ALIAS \in AliasTables
    /\ d \in Answers(variant)
    /\ pc = "load"
    /\ err = ""
    /\ k = 1
    /\ pool_sizes = EmptyDict
    /\ dates = << >>
    /\ tmp = EmptyDict
    /\ slots = [p \in {} |-> << >>]
    /\ found = "unbound"
    /\ i = None
    /\ df = << >>
    /\ rendered = << >>
    /\ run = 1
    /\ prev = << >>

\* an exception ends the script: nothing after the raising statement runs
Raise(e) == /\ pc' = "error" /\ err' = e

\* ---------------------------------------------------------------- loading
\* one iteration of "for i, ti in enumerate(d['task_instances'])"
Load ==
    /\ pc = "load"
    /\ k <= Len(d)
    /\ LET ti == d[k] IN
       /\ i' = k - 1
       /\ IF ti.missing \in {"pool", "pool_slots"}
          THEN /\ Raise("KeyError")
               /\ UNCHANGED << pool_sizes, dates, k >>
          ELSE IF WeightConflict(pool_sizes, d, k)
          THEN /\ Raise("AssertionError")
               /\ UNCHANGED << pool_sizes, dates, k >>
          ELSE /\ pool_sizes' = Put(pool_sizes, ti.pool, ti.pool_slots)
               /\ IF TimestampError(ti) # ""
                  THEN /\ Raise(TimestampError(ti))
                       /\ UNCHANGED << dates, k >>
                  ELSE /\ dates' = dates \o
                            << [t |-> ti.start_date, ti |-> k,
                                event |-> "start"],
                               [t |-> ti.end_date, ti |-> k,
                                event |-> "stop"] >>
                       /\ k' = k + 1
                       /\ UNCHANGED << pc, err >>
    /\ UNCHANGED << env, tmp, slots, found, df, rendered >>

\* dates.sort(key=lambda e: e[0]); pool_sizes = defaultdict(int);
\* tmp = defaultdict(int)
SortDates ==
    /\ pc = "load"
    /\ k > Len(d)
    /\ dates' = SortByTime(dates)
    /\ pool_sizes' = EmptyDict
    /\ tmp' = EmptyDict
    /\ k' = 1
    /\ pc' = "sweep"
    /\ UNCHANGED << env, err, slots, found, i, df, rendered >>

\* ---------------------------------------------------------------- sweep
\* one iteration of "for d, ti, event in dates" building pool_sizes
Sweep ==
    /\ pc = "sweep"
    /\ k <= Len(dates)
    /\ LET ti == d[dates[k].ti]
           pool == ti.pool
           cnt == IF IsStart(dates[k])
                  THEN Get0(tmp, pool) + ti.pool_slots
                  ELSE Get0(tmp, pool) - ti.pool_slots
       IN /\ tmp' = Put(tmp, pool, cnt)
          /\ pool_sizes' =
                Put(pool_sizes, pool, Max(Get0(pool_sizes, pool), cnt))
    /\ k' = k + 1
    /\ UNCHANGED << env, pc, err, dates, slots, found, i, df,
                    rendered >>

\* (variant of Allocate: the slots are made before the sweep's last event)
AllocateBeforeSweepEnd ==
    /\ pc = "sweep"
    /\ k >= Len(dates)
    /\ slots' = [p \in DOMAIN pool_sizes |-> NewSlots(pool_sizes[p])]
    /\ df' = << >>
    /\ k' = 1
    /\ pc' = "assign"
    /\ UNCHANGED << env, err, pool_sizes, dates, tmp, found, i,
                    rendered >>

\* slots = {pool: [None] * pool_size ...}; df = []
Allocate ==
    /\ pc = "sweep"
    /\ k > Len(dates)
    /\ slots' = [p \in DOMAIN pool_sizes |-> NewSlots(pool_sizes[p])]
    /\ df' = << >>
    /\ k' = 1
    /\ pc' = "assign"
    /\ UNCHANGED << env, err, pool_sizes, dates, tmp, found, i,
                    rendered >>

\* ---------------------------------------------------------------- assignment
\* (variant of SkipStop: a stop event empties the timeline of its pool)
SkipStopClearsTimeline ==
    /\ pc = "assign"
    /\ k <= Len(dates)
    /\ ~IsStart(dates[k])
    /\ k' = k + 1
    /\ slots' = [slots EXCEPT ![d[dates[k].ti].pool] = NewSlots(Len(@))]
    /\ UNCHANGED << env, pc, err, pool_sizes, dates, tmp,
                    found, i, df, rendered >>

\* (variant of SkipStop: a stop event gives its weight back to the capacity)
SkipStopShrinksPool ==
    /\ pc = "assign"
    /\ k <= Len(dates)
    /\ ~IsStart(dates[k])
    /\ k' = k + 1
    /\ pool_sizes' = Put(pool_sizes, d[dates[k].ti].pool,
                         Get0(pool_sizes, d[dates[k].ti].pool)
                            - d[dates[k].ti].pool_slots)
    /\ UNCHANGED << env, pc, err, dates, tmp, slots,
                    found, i, df, rendered >>

\* "if event != 'start': continue"
SkipStop ==
    /\ pc = "assign"
    /\ k <= Len(dates)
    /\ ~IsStart(dates[k])
    /\ k' = k + 1
    /\ UNCHANGED << env, pc, err, pool_sizes, dates, tmp, slots,
                    found, i, df, rendered >>

\* (variant of BatchIndex: map_index 0 is taken for "not mapped" too)
BatchIndexZeroAbsent(map_index) ==
    IF map_index \in {-1, 0} THEN "None" ELSE Str(map_index)

\* None if ti['map_index'] == -1 else f'{ti["map_index"]}'
\* (None is the string "None", which is no decimal numeral)
BatchIndex(map_index) ==
    IF map_index = -1 THEN "None" ELSE Str(map_index)

\* (variant of Row: the multi-run script labels with the pool's own name)
RowUnaliasedInMultiexec(v, table, ti, n, t_start, t_end, slot) ==
    LET alias == IF v = "multiexec" THEN ti.pool ELSE Alias(table, ti.pool)
        base == [ task |-> ti.task_id, start |-> t_start, end |-> t_end,
                  resource |-> Label(alias, slot),
                  map_index |-> BatchIndex(ti.map_index),
                  ti |-> n, alias |-> alias, slot |-> slot ]
    IN IF v = "multiexec"
       THEN [ f \in DOMAIN base \cup {"dag_run_id"} |->
                IF f = "dag_run_id" THEN ti.dag_run_id ELSE base[f] ]
       ELSE base

\* the row appended to df
Row(v, table, ti, n, t_start, t_end, slot) ==
    LET base == [ task |-> ti.task_id, start |-> t_start, end |-> t_end,
                  resource |-> Label(Alias(table, ti.pool), slot),
                  map_index |-> BatchIndex(ti.map_index),
                  \* not fields of the script's row: the instance the row was
                  \* derived from and the parts of its label
                  ti |-> n, alias |-> Alias(table, ti.pool), slot |-> slot ]
    IN IF v = "multiexec"
       THEN [ f \in DOMAIN base \cup {"dag_run_id"} |->
                IF f = "dag_run_id" THEN ti.dag_run_id ELSE base[f] ]
       ELSE base

\* one iteration of the assignment loop on a 'start' event
Assign ==
    /\ pc = "assign"
    /\ k <= Len(dates)
    /\ IsStart(dates[k])
    /\ LET t == dates[k].t
           ti == d[dates[k].ti]
           ss == slots[ti.pool]
           hit == \E j \in 1..Len(ss) : Available(ss[j], t)
           i1 == IF ss = << >> THEN i ELSE ScanStop(ss, t)
           found1 == IF hit THEN "True" ELSE found
           t_end == t + ti.duration
       IN /\ i' = i1
          /\ found' = found1
          /\ IF found1 = "unbound"
             THEN /\ Raise("NameError")
                  /\ UNCHANGED << slots, df, k >>
             ELSE IF found1 # "True"
             THEN /\ Raise("ValueError")
                  /\ UNCHANGED << slots, df, k >>
             ELSE IF i1 = None
             THEN /\ Raise("NameError")
                  /\ UNCHANGED << slots, df, k >>
             ELSE IF i1 >= Len(ss)
             THEN /\ Raise("IndexError")
                  /\ UNCHANGED << slots, df, k >>
             ELSE IF ti.missing = "duration"
             THEN /\ Raise("KeyError")
                  /\ UNCHANGED << slots, df, k >>
             ELSE /\ slots' = [slots EXCEPT ![ti.pool][i1 + 1] = t_end]
                  /\ IF RowError(ti, variant) # ""
                     THEN /\ Raise(RowError(ti, variant))
                          /\ UNCHANGED << df, k >>
                     ELSE /\ df' = Append(df, Row(variant, POOL_ALIAS, ti,
                                                   dates[k].ti, t, t_end, i1))
                          /\ k' = k + 1
                          /\ UNCHANGED << pc, err >>
    /\ UNCHANGED << env, pool_sizes, dates, tmp, rendered >>

\* ---------------------------------------------------------------- output
\* (variant of T0: the last event's timestamp, dates[-1][0])
T0OfLast(ds) == ds[Len(ds)].t

\* t0 = dates[0][0]
T0(ds) == ds[1].t

\* t0 = dates[0][0]; delta = t0 - epoch; every row's start and end minus delta
Normalize ==
    /\ pc = "assign"
    /\ k > Len(dates)
    /\ IF dates = << >>
       THEN /\ Raise("IndexError")
            /\ UNCHANGED df
       ELSE /\ df' = [r \in 1..Len(df) |->
                        [df[r] EXCEPT !.start = @ - T0(dates),
                                      !.end = @ - T0(dates)]]
            /\ pc' = "sortdf"
            /\ UNCHANGED err
    /\ UNCHANGED << env, k, pool_sizes, dates, tmp, slots,
                    found, i, rendered >>

\* df.sort(key=lambda e: e['resource'])
\* (the key of a row is the number of rows with a smaller label)
SortByResource(rows) ==
    StableSort(rows, [p \in 1..Len(rows) |->
        Cardinality({ q \in 1..Len(rows) : ResourceLess(rows[q], rows[p]) })])

\* (variant of SortByStartReversed: sorted ascending, then reversed as a whole)
SortByStartThenReverse(rows) ==
    LET up == StableSort(rows, [p \in 1..Len(rows) |-> rows[p].start])
    IN [p \in 1..Len(rows) |-> up[Len(rows) + 1 - p]]

\* df.sort(key=lambda e: e['start'], reverse=True)
SortByStartReversed(rows) ==
    StableSort(rows, [p \in 1..Len(rows) |-> 0 - rows[p].start])

SortDf ==
    /\ pc = "sortdf"
    /\ df' = IF variant = "bytask"
             THEN SortByStartReversed(SortByResource(df))
             ELSE SortByResource(df)
    /\ pc' = "render"
    /\ UNCHANGED << env, err, k, pool_sizes, dates, tmp, slots,
                    found, i, rendered >>

\* px.timeline(df, ...) ... fig.write_image(...)
Render ==
    /\ pc = "render"
    /\ rendered' = df
    /\ pc' = "done"
    /\ UNCHANGED << env, err, k, pool_sizes, dates, tmp, slots,
                    found, i, df >>

Next ==
    \/ Load
    \/ SortDates
    \/ Sweep
    \/ Allocate
    \/ SkipStop
    \/ Assign
    \/ Normalize
    \/ SortDf
    \/ Render

Spec == Init /\ [][Next]_vars

\* ---------------------------------------------------------------- defects
\* Every way a record may be short of a field the scripts read, or carry a
\* timestamp fromisoformat does not take; the instances are otherwise as the
\* data model has them (duration = end - start).
AllDefects ==
    { "", "pool", "pool_slots", "start_date", "end_date", "duration",
      "task_id", "map_index", "dag_run_id",
      "start_date:unparsable", "end_date:null" }

DefectiveInstances(runs) ==
    { ti \in [ pool : Pools, pool_slots : 1..MaxPoolSlots,
               start_date : Times, end_date : Times, duration : 0..MaxDur,
               missing : AllDefects, dag_run_id : runs,
               task_id : TaskIds, map_index : MapIndexes ] :
        /\ WellTimed(ti)
        /\ ti.duration = ti.end_date - ti.start_date }

\* the answers in the order of DAG_RUN_IDS
InRunOrder(s) ==
    \A x \in 1..Len(s), y \in 1..Len(s) :
       x < y => s[x].dag_run_id <= s[y].dag_run_id

InitFields ==
    /\ variant \in Variants
    /\ POOL_ALIAS \in AliasTables
    /\ d \in { s \in SeqsUpTo(DefectiveInstances(
                         IF variant = "bytask" THEN {1} ELSE 1..MaxRuns),
                       MaxInst) : InRunOrder(s) }
    /\ pc = "load"
    /\ err = ""
    /\ k = 1
    /\ pool_sizes = EmptyDict
    /\ dates = << >>
    /\ tmp = EmptyDict
    /\ slots = [p \in {} |-> << >>]
    /\ found = "unbound"
    /\ i = None
    /\ df = << >>
    /\ rendered = << >>
    /\ run = 1
    /\ prev = << >>

SpecFields == InitFields /\ [][Next]_vars

\* ---------------------------------------------------------------- rows
\* Complete records of mapped and unmapped instances, and alias tables that
\* have no entry, rename one pool, or give a pool the name of the other one.
RowMapIndexes == {-1, 0, 3, 12}

RowAliasTables ==
    { [p \in {} |-> ""], [p \in {"gpu"} |-> "GPU"], [p \in {"cpu"} |-> "gpu"] }

MappedInstances(runs) ==
    { ti \in [ pool : Pools, pool_slots : 1..MaxPoolSlots,
               start_date : Times, end_date : Times, duration : 0..MaxDur,
               missing : {""}, dag_run_id : runs,
               task_id : TaskIds, map_index : RowMapIndexes ] :
        /\ WellTimed(ti)
        /\ ti.duration = ti.end_date - ti.start_date }

InitRows ==
    /\ variant \in Variants
    /\ POOL_ALIAS \in RowAliasTables
    /\ d \in { s \in SeqsUpTo(MappedInstances(
                         IF variant = "bytask" THEN {1} ELSE 1..MaxRuns),
                       MaxInst) : InRunOrder(s) }
    /\ pc = "load"
    /\ err = ""
    /\ k = 1
    /\ pool_sizes = EmptyDict
    /\ dates = << >>
    /\ tmp = EmptyDict
    /\ slots = [p \in {} |-> << >>]
    /\ found = "unbound"
    /\ i = None
    /\ df = << >>
    /\ rendered = << >>
    /\ run = 1
    /\ prev = << >>

SpecRows == InitRows /\ [][Next]_vars

\* ---------------------------------------------------------------- re-running
\* The script is executed a second time on the same answer, either by a new
\* interpreter (fresh) or in the namespace the first execution left behind.
\* In the second case only the names the script's first statements assign are
\* reset (pool_sizes = dict(), dates = []); tmp, slots and df are assigned
\* later, found and i are whatever the first execution left.
\* (variant of InitialPoolSizes: no 'pool_sizes = dict()' at the top)
KeepPoolSizes(left) == left

\* pool_sizes = dict()
InitialPoolSizes(left) == EmptyDict

Rerun ==
    /\ run = 1
    /\ pc \in {"done", "error"}
    /\ prev' = << [pc |-> pc, err |-> err, pool_sizes |-> pool_sizes,
                   rendered |-> rendered] >>
    /\ run' = 2
    /\ pc' = "load"
    /\ err' = ""
    /\ k' = 1
    /\ rendered' = << >>
    /\ dates' = << >>
    /\ \E fresh \in BOOLEAN :
          IF fresh
          THEN /\ pool_sizes' = EmptyDict
               /\ tmp' = EmptyDict
               /\ slots' = [p \in {} |-> << >>]
               /\ found' = "unbound"
               /\ i' = None
               /\ df' = << >>
          ELSE /\ pool_sizes' = InitialPoolSizes(pool_sizes)
               /\ UNCHANGED << tmp, slots, found, i, df >>
    /\ UNCHANGED << variant, POOL_ALIAS, d >>

NextRerun == Next \/ Rerun

SpecRerun == Init /\ [][NextRerun]_vars

\* ---------------------------------------------------------------- both scripts
\* plot_gantt_bytask.py is executed on the answer for one run, then
\* plot_gantt_multiexec.py with DAG_RUN_IDS holding that run alone, each by
\* an interpreter of its own.
SwitchVariant ==
    /\ run = 1
    /\ variant = "bytask"
    /\ pc \in {"done", "error"}
    /\ prev' = << [pc |-> pc, err |-> err, pool_sizes |-> pool_sizes,
                   rendered |-> rendered] >>
    /\ run' = 2
    /\ variant' = "multiexec"
    /\ pc' = "load"
    /\ err' = ""
    /\ k' = 1
    /\ pool_sizes' = EmptyDict
    /\ dates' = << >>
    /\ tmp' = EmptyDict
    /\ slots' = [p \in {} |-> << >>]
    /\ found' = "unbound"
    /\ i' = None
    /\ df' = << >>
    /\ rendered' = << >>
    /\ UNCHANGED << POOL_ALIAS, d >>

InitBoth == Init /\ variant = "bytask"

NextBoth == Next \/ SwitchVariant

SpecBoth == InitBoth /\ [][NextBoth]_vars

\* ================================================================ properties
\* the capacity sweep has run to its end
SweepDone == pc \in {"assign", "sortdf", "render", "done"}

\* the record of every instance is complete
Complete == \A n \in 1..Len(d) : d[n].missing = ""

RECURSIVE Demand(_, _, _, _)
\* sum of pool_slots of the first n instances that run in pool p at time t
Demand(recs, n, p, t) ==
    IF n = 0 THEN 0
    ELSE Demand(recs, n - 1, p, t) +
         (IF /\ recs[n].pool = p
             /\ recs[n].start_date <= t
             /\ t < recs[n].end_date
          THEN recs[n].pool_slots ELSE 0)

\* the maximum over time of the demand on pool p; the demand only changes at
\* a start or end timestamp, so the timestamps are the time points to look at
PeakDemand(recs, p) ==
    CHOOSE m \in 0..(Len(recs) * MaxPoolSlots) :
       /\ \A t \in Times : Demand(recs, Len(recs), p, t) <= m
       /\ \/ m = 0
          \/ \E t \in Times : Demand(recs, Len(recs), p, t) = m

\* two rows' [start, end) share a time point
Overlap(a, b) ==
    Max(a.start, b.start) < (IF a.end <= b.end THEN a.end ELSE b.end)

\* the step is an iteration of the assignment loop that emits a row
Emits == pc = "assign" /\ Len(df') = Len(df) + 1

\* C1: for every pool, the capacity the sweep infers is the maximum over time
\* of the sum of pool_slots of the pool's instances whose [start, end)
\* contains that time.  Stated for complete records of instances of positive
\* length: the sweep gets them wrong whatever one takes an empty interval to
\* occupy.
C1_CapacityIsPeakDemand ==
    (/\ SweepDone
     /\ Complete
     /\ \A n \in 1..Len(d) : d[n].end_date > d[n].start_date)
       => \A p \in Pools : Get0(pool_sizes, p) = PeakDemand(d, p)

\* C2: no two distinct emitted rows of the same pool and slot index have
\* overlapping [start, end) intervals.
C2_NoDoubleBooking ==
    \A x \in 1..Len(df), y \in 1..Len(df) :
       (/\ x # y
        /\ d[df[x].ti].pool = d[df[y].ti].pool
        /\ df[x].slot = df[y].slot) => ~Overlap(df[x], df[y])

\* the instance about to be processed finds no slot of its pool available
NoSlotQualifies ==
    /\ pc = "assign"
    /\ k <= Len(dates)
    /\ IsStart(dates[k])
    /\ \A j \in 1..Len(slots[d[dates[k].ti].pool]) :
          ~Available(slots[d[dates[k].ti].pool][j], dates[k].t)

\* C3: when no slot of the instance's pool has a next-available time <= its
\* start, the derivation fails with the capacity-exceeded error (the
\* ValueError 'incoherent planning') and the instance is put on no slot.
\* Stated for complete records, which raise no other error.
C3_CapacityExceededRaised ==
    [][(NoSlotQualifies /\ Complete) =>
          /\ pc' = "error"
          /\ err' = "ValueError"
          /\ slots' = slots
          /\ df' = df]_vars

\* C4: when an instance is assigned slot i, every slot j < i of its pool has,
\* at that moment, a next-available time strictly greater than its start.
C4_FirstFit ==
    [][Emits =>
          LET r == df'[Len(df')]
              ss == slots[d[r.ti].pool]
          IN \A j \in 1..r.slot : ss[j] # None /\ ss[j] > r.start]_vars

\* an instance was assigned a slot other than slot 0
C4_Witness == \E r \in 1..Len(df) : df[r].slot >= 1

\* C5: every emitted row's slot index is at least 0 and below the inferred
\* capacity of the row's pool.
C5_SlotInRange ==
    \A r \in 1..Len(df) :
       /\ df[r].slot >= 0
       /\ df[r].slot < Get0(pool_sizes, d[df[r].ti].pool)

\* a row on the last slot of a pool of capacity 2 or more
C5_Witness ==
    \E r \in 1..Len(df) :
       /\ df[r].slot >= 1
       /\ df[r].slot = Get0(pool_sizes, d[df[r].ti].pool) - 1

\* record y reports another pool_slots than an earlier record of its pool
ConflictAt(y) ==
    \E x \in 1..(y - 1) : /\ d[x].pool = d[y].pool
                         /\ d[x].pool_slots # d[y].pool_slots

\* the loader gets to compare record y: no record before it stops the loader
\* as malformed, and y has the two fields compared
ComparedByLoader(y) ==
    /\ \A z \in 1..(y - 1) :
          d[z].missing \notin {"pool", "pool_slots", "start_date", "end_date"}
    /\ d[y].missing \notin {"pool", "pool_slots"}

\* C6: if two instances of one pool report different pool_slots (of the same
\* run or not), the derivation never gets past the second of them: it stops
\* there with the AssertionError, no capacity is ever computed and no row is
\* produced.
C6_InconsistentWeightFails ==
    \A y \in 1..Len(d) :
       (ConflictAt(y) /\ ComparedByLoader(y)) =>
          /\ pc \in {"load", "error"}
          /\ k <= y
          /\ pc = "error" => err = "AssertionError"
          /\ tmp = EmptyDict
          /\ DOMAIN slots = {}
          /\ df = << >>
          /\ rendered = << >>

\* the assert stopped the multi-run variant on two instances of two runs
C6_Witness ==
    /\ pc = "error"
    /\ err = "AssertionError"
    /\ variant = "multiexec"
    /\ Len(d) = 2
    /\ d[1].dag_run_id # d[2].dag_run_id

\* C7: when an instance is assigned, its slot's next-available time becomes
\* the instance's end timestamp (the end_date of its stop event), and the
\* emitted row's end is that value.
C7_SlotFreedAtEnd ==
    [][Emits =>
          LET r == df'[Len(df')]
          IN /\ slots'[d[r.ti].pool][r.slot + 1] = d[r.ti].end_date
             /\ r.end = d[r.ti].end_date]_vars

\* the instances are on one pool with weight 1, have positive length, a
\* duration equal to end - start, and can be put in a row in which each
\* starts when the one before ends
TouchingChain ==
    /\ Len(d) >= 1
    /\ Complete
    /\ \A n \in 1..Len(d) :
          /\ d[n].pool = d[1].pool
          /\ d[n].pool_slots = 1
          /\ d[n].end_date > d[n].start_date
          /\ d[n].duration = d[n].end_date - d[n].start_date
    /\ \E f \in [1..Len(d) -> 1..Len(d)] :
          /\ \A a \in 1..Len(d), b \in 1..Len(d) : a # b => f[a] # f[b]
          /\ \A m \in 1..(Len(d) - 1) :
                d[f[m + 1]].start_date = d[f[m]].end_date

\* C8: weight-1 instances of one pool that are strictly sequential with
\* touching boundaries, delivered in any order, give the pool the capacity 1
\* and are all assigned slot 0.
C8_TouchingReusesSlot ==
    (TouchingChain /\ SweepDone) =>
       /\ Get0(pool_sizes, d[1].pool) = 1
       /\ \A r \in 1..Len(df) : df[r].slot = 0

\* C9: a second execution on the same answer, with the same alias table, ends
\* as the first did: the same error or none, the same capacities, the same
\* sequence of rows handed to the renderer, whatever the first execution left
\* behind.
C9_RerunSameResult ==
    (run = 2 /\ pc \in {"done", "error"}) =>
       prev = << [pc |-> pc, err |-> err, pool_sizes |-> pool_sizes,
                  rendered |-> rendered] >>

\* a second execution in the namespace of the first has rendered two rows
C9_Witness ==
    /\ run = 2
    /\ pc = "done"
    /\ found = "True"
    /\ Len(rendered) >= 2
    /\ \E p \in DOMAIN pool_sizes : pool_sizes[p] >= 2

\* C10: the renderer is handed rows only by an execution that ends without
\* an error, and then exactly one row per loaded instance; an execution that
\* ends in an error hands it none.
C10_AllOrNothing ==
    /\ pc # "done" => rendered = << >>
    /\ pc = "error" => err # ""
    /\ pc = "done" =>
          /\ err = ""
          /\ Len(rendered) = Len(d)
          /\ \A n \in 1..Len(d) :
                Cardinality({ r \in 1..Len(rendered) : rendered[r].ti = n }) = 1

\* an error after the first row was built: nothing reaches the renderer
C10_Witness ==
    /\ pc = "error"
    /\ err = "KeyError"
    /\ Len(df) >= 1
    /\ rendered = << >>

\* the record lacks a field its script reads, or a timestamp does not parse
Malformed(ti, v) ==
    /\ ti.missing # ""
    /\ ti.missing = "dag_run_id" => v = "multiexec"

\* two records of one pool with different pool_slots
SomeConflict == \E y \in 1..Len(d) : ConflictAt(y)

\* C11: a record that lacks a required field (task_id, map_index, pool,
\* pool_slots, start_date, end_date, duration, and dag_run_id in the multi-run
\* script) or whose timestamp is unparsable or null keeps the derivation from
\* getting past the assignment loop: nothing is rendered, and the error that
\* ends it is the KeyError, ValueError or TypeError of a malformed record
\* (the AssertionError when pool weights disagree as well).
C11_MalformedAborts ==
    (\E n \in 1..Len(d) : Malformed(d[n], variant)) =>
       /\ pc \in {"load", "sweep", "assign", "error"}
       /\ pc = "assign" => k <= Len(dates)
       /\ rendered = << >>
       /\ pc = "error" =>
             \/ err \in {"KeyError", "ValueError", "TypeError"}
             \/ err = "AssertionError" /\ SomeConflict

\* a record without map_index stopped the run after an earlier row was built
C11_Witness ==
    /\ pc = "error"
    /\ err = "KeyError"
    /\ Len(d) = 2
    /\ d[2].missing = "map_index"
    /\ d[1].missing = ""
    /\ Len(df) = 1

\* the assignment loop has run over every event
AssignDone ==
    \/ pc \in {"sortdf", "render", "done"}
    \/ pc = "assign" /\ k > Len(dates)

\* the rows derived from instance n
RowsOf(n) == { r \in 1..Len(df) : df[r].ti = n }

\* C12: the assignment loop emits exactly one row per loaded instance: never
\* two for one instance, and at its end as many rows as instances, one for
\* each.
C12_OneRowPerInstance ==
    /\ \A n \in 1..Len(d) : Cardinality(RowsOf(n)) <= 1
    /\ AssignDone =>
          /\ Len(df) = Len(d)
          /\ \A n \in 1..Len(d) : Cardinality(RowsOf(n)) = 1

\* the loop has ended with the rows of two instances
C12_Witness ==
    /\ pc = "assign"
    /\ k > Len(dates)
    /\ Len(df) = 2
    /\ df[1].ti # df[2].ti

\* the minimum start over all instances
MinStart(recs) ==
    CHOOSE m \in Times :
       /\ \E n \in 1..Len(recs) : recs[n].start_date = m
       /\ \A n \in 1..Len(recs) : recs[n].start_date >= m

\* C13: normalization shifts the start and the end of every row by the same
\* amount, the minimum start over all instances: end - start is unchanged, no
\* rebased start is negative and the smallest is zero.
C13_Rebased ==
    [][(pc = "assign" /\ pc' = "sortdf") =>
          /\ Len(df') = Len(df)
          /\ \A r \in 1..Len(df) :
                /\ df[r].start - df'[r].start = MinStart(d)
                /\ df[r].end - df'[r].end = MinStart(d)
                /\ df'[r].end - df'[r].start = df[r].end - df[r].start
                /\ df'[r].start >= 0
          /\ \E r \in 1..Len(df) : df'[r].start = 0]_vars

\* two rows of different start were rebased by a shift that is not zero
C13_Witness ==
    /\ pc = "sortdf"
    /\ MinStart(d) > 0
    /\ Len(df) = 2
    /\ df[1].start = 0
    /\ df[2].start > 0

\* the decimal numerals of the numbers that occur as map_index or slot index
Numeral(n) ==
    CASE n = 0 -> "0" [] n = 1 -> "1" [] n = 2 -> "2" [] n = 3 -> "3"
      [] n = 4 -> "4" [] n = 5 -> "5" [] n = 6 -> "6" [] n = 7 -> "7"
      [] n = 8 -> "8" [] n = 9 -> "9" [] n = 12 -> "12"

\* C14: the batch-index field of a row is absent (None) exactly when the
\* instance's map_index is -1, and otherwise is the decimal string of
\* map_index, also for map_index 0.
C14_BatchIndex ==
    \A r \in 1..Len(df) :
       LET mi == d[df[r].ti].map_index
       IN /\ (df[r].map_index = "None") <=> (mi = -1)
          /\ mi # -1 => df[r].map_index = Numeral(mi)

\* rows of an unmapped instance and of the instance of map_index 0
C14_Witness ==
    /\ Len(df) = 2
    /\ d[df[1].ti].map_index = 0
    /\ df[1].map_index = "0"
    /\ d[df[2].ti].map_index = -1

\* C15: the resource label of an emitted row is '<alias>.<slot index>', the
\* alias being the table's entry for the instance's pool, or the pool name
\* when the table has none; the slot is looked up and booked in the timeline
\* of the original pool name, whatever the alias is.
C15_ResourceLabel ==
    [][Emits =>
          LET r == df'[Len(df')]
              pool == d[r.ti].pool
              alias == IF pool \in DOMAIN POOL_ALIAS THEN POOL_ALIAS[pool]
                       ELSE pool
          IN /\ r.resource = alias \o "." \o Numeral(r.slot)
             /\ r.slot < Len(slots[pool])
             /\ slots' = [slots EXCEPT ![pool][r.slot + 1] = r.end]]_vars

\* a cpu instance, shown under the name of the gpu pool, sits on slot 1 of
\* the cpu timeline while the gpu timeline is in use too
C15_Witness ==
    /\ POOL_ALIAS = [p \in {"cpu"} |-> "gpu"]
    /\ Len(df) = 2
    /\ d[df[1].ti].pool = "gpu"
    /\ d[df[2].ti].pool = "cpu"
    /\ df[2].resource = "gpu.0"
    /\ df[1].resource = "gpu.0"

\* the records of the instances of pool p
InPool(p) == { n \in 1..Len(d) : d[n].pool = p }

\* the instances of pool p have weight 1 and distinct starts, and their
\* [start, end) intervals overlap pairwise
OverlappingStack(p) ==
    /\ Complete
    /\ InPool(p) # {}
    /\ \A a \in InPool(p) : d[a].pool_slots = 1
    /\ \A a \in InPool(p), b \in InPool(p) :
          a # b => /\ d[a].start_date # d[b].start_date
                   /\ Max(d[a].start_date, d[b].start_date) <
                         (IF d[a].end_date <= d[b].end_date
                          THEN d[a].end_date ELSE d[b].end_date)

\* the number of instances of n's pool that start before n does
StartRank(n) ==
    Cardinality({ a \in InPool(d[n].pool) :
                     d[a].start_date < d[n].start_date })

\* C16: k weight-1 instances of one pool whose intervals overlap pairwise and
\* whose starts are distinct give the pool the capacity k and receive the
\* slots 0, 1, ..., k-1 in ascending order of start time.
C16_OverlappingFillSlots ==
    \A p \in Pools :
       (OverlappingStack(p) /\ SweepDone) =>
          /\ Get0(pool_sizes, p) = Cardinality(InPool(p))
          /\ \A r \in 1..Len(df) :
                d[df[r].ti].pool = p => df[r].slot = StartRank(df[r].ti)

\* C17: for every input that satisfies the data model's invariants (end >=
\* start for every instance, one pool_slots value per pool) every instance
\* finds a slot of its pool whose next-available time is <= its start: the
\* capacity-exceeded condition is never met.
C17_SlotAlwaysFound ==
    (/\ Complete
     /\ \A n \in 1..Len(d) : WellTimed(d[n])
     /\ ~SomeConflict) => ~NoSlotQualifies

\* C18: in the capacity sweep, when a stop event and a start event of two
\* different instances carry the same timestamp, the stop is processed before
\* the start, whatever the order in which the records were delivered: no
\* start is swept while such a stop is still to come.  Stated for instances
\* of positive length (two empty intervals at one timestamp cannot both have
\* their stop before the other's start).
C18_StopSweptBeforeStart ==
    [][(pc = "sweep" /\ k <= Len(dates) /\ k' = k + 1 /\ IsStart(dates[k])) =>
          \A j \in (k + 1)..Len(dates) :
             ~(/\ ~IsStart(dates[j])
               /\ dates[j].t = dates[k].t
               /\ dates[j].ti # dates[k].ti
               /\ d[dates[j].ti].end_date > d[dates[j].ti].start_date
               /\ d[dates[k].ti].end_date > d[dates[k].ti].start_date)]_vars

RECURSIVE Running(_, _, _)
\* the pool's count after the first n events of ds: weights of the starts
\* minus weights of the stops
Running(ds, n, p) ==
    IF n = 0 THEN 0
    ELSE Running(ds, n - 1, p) +
         (IF d[ds[n].ti].pool # p THEN 0
          ELSE IF ds[n].event = "start" THEN d[ds[n].ti].pool_slots
          ELSE 0 - d[ds[n].ti].pool_slots)

\* the highest count the pool reaches over all events of ds
HighestRunning(ds, p) ==
    CHOOSE m \in 0..(Len(d) * MaxPoolSlots) :
       /\ \A n \in 0..Len(ds) : Running(ds, n, p) <= m
       /\ \E n \in 0..Len(ds) : Running(ds, n, p) = m

\* C19: before the first instance is assigned to a slot, the capacity sweep
\* has processed every event of every instance and every pool's slot timeline
\* has been allocated with length equal to the final inferred capacity: until
\* then no slot timeline and no row exists, and from then on the capacities
\* are those of the whole event list and are the lengths of the timelines.
C19_SweepThenAllocateThenAssign ==
    /\ pc \in {"load", "sweep"} => DOMAIN slots = {} /\ df = << >>
    /\ SweepDone =>
          /\ Len(dates) = 2 * Len(d)
          /\ \A n \in 1..Len(d) :
                \E a \in 1..Len(dates), b \in 1..Len(dates) :
                   /\ dates[a] = [t |-> d[n].start_date, ti |-> n,
                                  event |-> "start"]
                   /\ dates[b] = [t |-> d[n].end_date, ti |-> n,
                                  event |-> "stop"]
          /\ DOMAIN pool_sizes = { d[n].pool : n \in 1..Len(d) }
          /\ DOMAIN slots = DOMAIN pool_sizes
          /\ \A p \in DOMAIN pool_sizes :
                /\ pool_sizes[p] = HighestRunning(dates, p)
                /\ tmp[p] = Running(dates, Len(dates), p)
                /\ Len(slots[p]) = pool_sizes[p]

\* the first instance is about to be assigned: two pools, of capacity 2 and 1
C19_Witness ==
    /\ pc = "assign"
    /\ k = 1
    /\ df = << >>
    /\ DOMAIN slots = {"cpu", "gpu"}
    /\ Len(slots["cpu"]) = 2
    /\ Len(slots["gpu"]) = 1

\* C20: instances are assigned in ascending order of start time, instances
\* of identical start time in the order of their delivery; and of two
\* instances of one pool with equal start, the one delivered earlier never
\* receives a higher slot index than the other when it finds a free slot at
\* that time.
C20_AssignedInStableStartOrder ==
    [][Emits =>
          LET r == df'[Len(df')]
          IN /\ \A x \in 1..Len(df) :
                   \/ d[df[x].ti].start_date < d[r.ti].start_date
                   \/ /\ d[df[x].ti].start_date = d[r.ti].start_date
                      /\ df[x].ti < r.ti
             /\ ~NoSlotQualifies =>
                   \A x \in 1..Len(df) :
                      (/\ d[df[x].ti].pool = d[r.ti].pool
                       /\ d[df[x].ti].start_date = d[r.ti].start_date)
                         => df[x].slot <= r.slot]_vars

\* two instances of one pool with the same start, on slots 0 and 1 in the
\* order of their delivery
C20_Witness ==
    /\ pc = "assign"
    /\ Len(df) = 2
    /\ df[1].ti = 1
    /\ df[2].ti = 2
    /\ d[1].pool = d[2].pool
    /\ d[1].start_date = d[2].start_date
    /\ df[1].slot = 0
    /\ df[2].slot = 1

\* what the claims about the two scripts compare of a row
Assignment(r) ==
    [ ti |-> r.ti, task |-> r.task, map_index |-> r.map_index,
      resource |-> r.resource, start |-> r.start, end |-> r.end ]

AssignmentsOf(rows) == { Assignment(rows[r]) : r \in 1..Len(rows) }

\* C21: the multi-run variant applied to a run list of a single run id ends
\* as the single-run variant applied to that run does: the same inferred
\* capacities and, for every instance, the same assignment (task_id,
\* map_index, resource label, rebased start, rebased end).
C21_SingleRunSameAsByTask ==
    (run = 2 /\ variant = "multiexec" /\ pc \in {"done", "error"}) =>
       /\ prev[1].pc = pc
       /\ prev[1].err = err
       /\ prev[1].pool_sizes = pool_sizes
       /\ AssignmentsOf(prev[1].rendered) = AssignmentsOf(rendered)

\* both scripts rendered the same two assignments, in different row orders
C21_Witness ==
    /\ run = 2
    /\ variant = "multiexec"
    /\ pc = "done"
    /\ Len(rendered) = 2
    /\ prev[1].rendered[1].ti = rendered[2].ti
    /\ \E p \in DOMAIN pool_sizes : pool_sizes[p] >= 2

\* the multi-run script has merged the events of all runs, rebases on the
\* earliest start of all runs and labels every row with its instance's run
RunsMerged ==
    /\ SweepDone =>
          /\ Len(dates) = 2 * Len(d)
          /\ DOMAIN pool_sizes = { d[n].pool : n \in 1..Len(d) }
          /\ DOMAIN slots = DOMAIN pool_sizes
    /\ \A r \in 1..Len(df) :
          /\ df[r].dag_run_id = d[df[r].ti].dag_run_id
          /\ pc \in {"sortdf", "render", "done"} =>
                df[r].start = d[df[r].ti].start_date - MinStart(d)

\* C22: in the multi-run variant all instances of all listed runs are merged
\* into one event list before the sweep: capacity and slot timelines of a
\* pool are shared by all runs (rows of instances of different runs on the
\* same pool and slot never overlap), the time origin is the earliest start
\* over all runs, and each row carries the run identifier of its instance.
C22_RunsShareTimelines ==
    variant = "multiexec" =>
       /\ RunsMerged
       /\ \A x \in 1..Len(df), y \in 1..Len(df) :
             (/\ df[x].dag_run_id # df[y].dag_run_id
              /\ d[df[x].ti].pool = d[df[y].ti].pool
              /\ df[x].slot = df[y].slot) => ~Overlap(df[x], df[y])

\* C23: malformed records are rejected in the loader, before the capacity
\* sweep starts: on an input that contains a record missing a required field
\* (map_index, task_id and, in multi-run mode, dag_run_id included) no sweep
\* step and no slot assignment is ever executed.
C23_RejectedInLoader ==
    (\E n \in 1..Len(d) : Malformed(d[n], variant)) =>
       /\ pc \in {"load", "error"}
       /\ tmp = EmptyDict
       /\ \A p \in DOMAIN slots : \A j \in 1..Len(slots[p]) :
             slots[p][j] = None
       /\ df = << >>

\* C24: once the capacity sweep has finished, the pool-capacity mapping is
\* never changed: during slot assignment, normalization and what follows no
\* pool is added to it and no capacity is modified, also when an instance
\* fails to find a slot.
C24_CapacitiesFrozen ==
    [][SweepDone => pool_sizes' = pool_sizes]_vars

\* an execution ran to its end although the second instance found no slot;
\* the capacity of the pool is still 1
C24_Witness ==
    /\ pc = "done"
    /\ Len(df) = 2
    /\ Overlap(df[1], df[2])
    /\ df[1].resource = df[2].resource
    /\ DOMAIN pool_sizes = {"cpu"}
    /\ pool_sizes["cpu"] = 1

\* C25: assigning one instance changes exactly one entry of the slot
\* timelines, the chosen slot of the instance's own pool, which is set to the
\* row's end; every other slot of that pool and every slot of every other
\* pool is left unchanged, and stop events change no slot at all.
C25_OneSlotWritten ==
    [][(pc = "assign" /\ k <= Len(dates)) =>
          /\ DOMAIN slots' = DOMAIN slots
          /\ \A p \in DOMAIN slots : Len(slots'[p]) = Len(slots[p])
          /\ IF IsStart(dates[k])
             THEN /\ \A p \in DOMAIN slots : \A j \in 1..Len(slots[p]) :
                        (p # d[dates[k].ti].pool \/ j # i' + 1)
                           => slots'[p][j] = slots[p][j]
                  /\ Emits => slots'[d[dates[k].ti].pool][i' + 1]
                                 = df'[Len(df')].end
             ELSE slots' = slots]_vars

\* the second slot of a pool was written while the first stayed booked
C25_Witness ==
    /\ pc = "assign"
    /\ Len(df) = 2
    /\ \E p \in DOMAIN slots :
          /\ Len(slots[p]) = 2
          /\ slots[p][1] = df[1].end
          /\ slots[p][2] = df[2].end
          /\ df[2].slot = 1
          /\ df[1].end # df[2].end

\* the positions of the events of instance n of the given kind
EventsOf(n, kind) ==
    { a \in 1..Len(dates) : dates[a].ti = n /\ dates[a].event = kind }

\* C26: every instance contributes exactly one start and one stop event to
\* the sorted event list, and its start is processed before its own stop,
\* also when the instance has no length; so each pool's running counter is
\* never negative during the sweep and is zero after the last event.
C26_StartBeforeOwnStop ==
    (pc = "sweep" \/ SweepDone) =>
       /\ Len(dates) = 2 * Len(d)
       /\ \A n \in 1..Len(d) :
             /\ Cardinality(EventsOf(n, "start")) = 1
             /\ Cardinality(EventsOf(n, "stop")) = 1
             /\ \A a \in EventsOf(n, "start"), b \in EventsOf(n, "stop") :
                   /\ a < b
                   /\ dates[a].t = d[n].start_date
                   /\ dates[b].t = d[n].end_date
       /\ \A p \in DOMAIN tmp : tmp[p] >= 0
       /\ (SweepDone \/ k > Len(dates)) =>
             /\ DOMAIN tmp = { d[n].pool : n \in 1..Len(d) }
             /\ \A p \in DOMAIN tmp : tmp[p] = 0

\* the sweep is over the events of two instances of one pool that start
\* together, one of them of no length
C26_Witness ==
    /\ pc = "sweep"
    /\ k > Len(dates)
    /\ Len(d) = 2
    /\ d[1].pool = d[2].pool
    /\ d[1].start_date = d[2].start_date
    /\ d[2].end_date = d[2].start_date
    /\ d[1].end_date > d[1].start_date

\* the number of instances of pool p that run at time t
RunningAt(p, t) ==
    Cardinality({ n \in InPool(p) :
                     d[n].start_date <= t /\ t < d[n].end_date })

\* the peak number of simultaneously running instances of pool p
PeakRunning(p) ==
    CHOOSE m \in 0..Len(d) :
       /\ \A t \in Times : RunningAt(p, t) <= m
       /\ \/ m = 0
          \/ \E t \in Times : RunningAt(p, t) = m

\* the slot indices of pool p that received an instance
UsedSlots(p) ==
    { df[r].slot : r \in { x \in 1..Len(df) : d[df[x].ti].pool = p } }

\* C27: in every pool the set of slot indices that receive at least one
\* instance is the contiguous prefix {0, ..., k-1}, k being the peak number of
\* simultaneously running instances of the pool (not weighted by
\* pool_slots); with pool weight w > 1 no slot of index >= capacity / w is
\* used.  Stated for complete records of instances of positive length, once
\* all instances are assigned.
C27_UsedSlotsArePrefix ==
    (/\ AssignDone
     /\ Complete
     /\ \A n \in 1..Len(d) : d[n].end_date > d[n].start_date) =>
       \A p \in DOMAIN pool_sizes :
          /\ UsedSlots(p) = 0..(PeakRunning(p) - 1)
          /\ \A n \in InPool(p) : \A u \in UsedSlots(p) :
                u * d[n].pool_slots < pool_sizes[p]

\* C28: no two output rows that carry the same resource label overlap in
\* time, for every alias table, also one that maps two pools to the same
\* label or maps a pool to the name of another pool.
C28_NoOverlapPerLabel ==
    \A x \in 1..Len(df), y \in 1..Len(df) :
       (x # y /\ df[x].resource = df[y].resource) => ~Overlap(df[x], df[y])

\* the event about to be processed is the start of the first instance of its
\* pool to reach the assignment loop
FirstOfPool ==
    /\ pc = "assign"
    /\ k <= Len(dates)
    /\ IsStart(dates[k])
    /\ \A r \in 1..Len(df) : d[df[r].ti].pool # d[dates[k].ti].pool

\* C29: every pool that has a loaded instance gets an inferred capacity >=
\* its pool_slots >= 1, so its slot timeline is non-empty (and all free) when
\* the first instance of the pool is assigned, and the first instance
\* processed in each pool is assigned slot 0.
C29_FirstInstanceOnSlotZero ==
    [][FirstOfPool =>
          LET ti == d[dates[k].ti]
          IN /\ ti.pool_slots >= 1
             /\ pool_sizes[ti.pool] >= ti.pool_slots
             /\ Len(slots[ti.pool]) >= 1
             /\ \A j \in 1..Len(slots[ti.pool]) : slots[ti.pool][j] = None
             /\ i' = 0
             /\ ti.missing = "" =>
                   /\ Emits
                   /\ df'[Len(df')].slot = 0
                   /\ df'[Len(df')].ti = dates[k].ti]_vars

\* the first instances of two pools, each on slot 0 of a pool of capacity 2
C29_Witness ==
    /\ pc = "assign"
    /\ Len(df) = 2
    /\ d[df[1].ti].pool # d[df[2].ti].pool
    /\ df[1].slot = 0
    /\ df[2].slot = 0
    /\ \A p \in DOMAIN pool_sizes : pool_sizes[p] = 2

\* the labels of the pools' first ten slots in the order of Python's string
\* comparison (upper case before lower case, then the digit)
LabelsInStringOrder ==
    <<
       "CPU.0", "CPU.1", "CPU.2", "CPU.3", "CPU.4",
       "CPU.5", "CPU.6", "CPU.7", "CPU.8", "CPU.9",
       "GPU.0", "GPU.1", "GPU.2", "GPU.3", "GPU.4",
       "GPU.5", "GPU.6", "GPU.7", "GPU.8", "GPU.9",
       "cpu.0", "cpu.1", "cpu.2", "cpu.3", "cpu.4",
       "cpu.5", "cpu.6", "cpu.7", "cpu.8", "cpu.9",
       "gpu.0", "gpu.1", "gpu.2", "gpu.3", "gpu.4",
       "gpu.5", "gpu.6", "gpu.7", "gpu.8", "gpu.9"
    >>

LabelPosition(label) ==
    CHOOSE p \in 1..Len(LabelsInStringOrder) : LabelsInStringOrder[p] = label

\* row x was assigned before row y: the start events are processed by
\* ascending timestamp, those of one timestamp in delivery order
AssignedBefore(x, y) ==
    \/ d[x.ti].start_date < d[y.ti].start_date
    \/ d[x.ti].start_date = d[y.ti].start_date /\ x.ti < y.ti

\* C30: the final row sequence of the single-run variant is ordered by
\* non-increasing start, rows of equal start by ascending resource label; the
\* final row sequence of the multi-run variant is ordered by ascending
\* resource label (string comparison), rows of equal label keeping their
\* assignment order.
C30_FinalRowOrder ==
    pc = "done" =>
       \A x \in 1..Len(rendered), y \in 1..Len(rendered) :
          x < y =>
             LET a == rendered[x]
                 b == rendered[y]
             IN IF variant = "bytask"
                THEN \/ a.start > b.start
                     \/ /\ a.start = b.start
                        /\ LabelPosition(a.resource)
                              <= LabelPosition(b.resource)
                ELSE \/ LabelPosition(a.resource) < LabelPosition(b.resource)
                     \/ /\ a.resource = b.resource
                        /\ AssignedBefore(a, b)

\* the single-run variant rendered two rows of equal start in the order of
\* their labels, "GPU.0" before "cpu.0", against the order of assignment
C30_Witness ==
    /\ pc = "done"
    /\ variant = "bytask"
    /\ Len(rendered) = 2
    /\ rendered[1].start = rendered[2].start
    /\ rendered[1].resource = "GPU.0"
    /\ rendered[2].resource = "cpu.0"
    /\ rendered[1].ti = 2

\* C31: the next-available time of every slot never decreases over the
\* sequence of assignments: each assignment to a slot replaces its value by
\* one that is >= the previous value (None counting as minus infinity).
C31_SlotTimeNeverDecreases ==
    [][(pc = "assign" /\ k <= Len(dates)) =>
          \A p \in DOMAIN slots : \A j \in 1..Len(slots[p]) :
             \/ slots[p][j] = None
             \/ /\ slots'[p][j] # None
                /\ slots'[p][j] >= slots[p][j]]_vars
====
